---- MODULE Spec2Model ----
(***************************************************************************)
(* Model of the auto-editor front end: the App workflow (upload, analyze,  *)
(* edit, export, reset), the UploadScreen file list, the EditorScreen      *)
(* segment store and the Transcript selection gesture.                     *)
(*                                                                         *)
(* Times are integer ticks.  A React component's state exists only while   *)
(* the component is mounted; while it is unmounted the model holds the     *)
(* value its useState initialiser would give it.  One pointer (a mouse     *)
(* button or one finger) is followed over the words of the transcript.     *)
(***************************************************************************)
EXTENDS Integers, Sequences, FiniteSets, Bags

\* ------------------------------------------------------------------ bounds
MaxTime == 2        \* duration of an analysed video, in ticks
MaxSegs == 2        \* segments in an analysis result
MaxWords == MaxSegs \* words in a transcript
MaxUploads == 2     \* submissions in one run (caps the fresh project ids)
MaxFiles == 2       \* files in the pending list / in one add-files event

VARIABLES
    screen,         \* App: 'upload' | 'processing' | 'editor'
    projectId,      \* App: NoProject or a project id
    projectData,    \* App: None or Some(analysis result)
    error,          \* App: NoError or a message
    files,          \* UploadScreen: pending file list
    segments,       \* EditorScreen: the segment store
    activeTab,      \* EditorScreen: 'timeline' | 'transcript'
    currentTime,    \* EditorScreen: playback position
    isSelecting,    \* Transcript
    selectionStart, \* Transcript: NoWord or index of the anchor word
    selectionEnd,   \* Transcript: NoWord or index of the focus word
    touchTimer,     \* Transcript: NoWord or the word of the pending long-press timer
    pointer,        \* 'up' | 'mouse' | 'mouseHeld' | 'touch': the press in progress
    outstanding,    \* bag of collaborator requests awaiting their response
    timers,         \* pending cool-down timers (setTimeout)
    opened,         \* download references handed to window.open
    uploads,        \* submissions made so far
    last            \* the handler that ran last, with its arguments

vars == <<screen, projectId, projectData, error, files, segments, activeTab,
          currentTime, isSelecting, selectionStart, selectionEnd, touchTimer,
          pointer, outstanding, timers, opened, uploads, last>>

appVars == <<screen, projectId, projectData, error>>
uploadVars == <<files>>
editorVars == <<segments, activeTab, currentTime>>
\* The Transcript's state and the press in progress over it.
selectionVars == <<isSelecting, selectionStart, selectionEnd, touchTimer, pointer>>
envVars == <<outstanding, timers, opened, uploads>>

\* ---------------------------------------------------------------- values
NoProject == 0
None == <<>>
Some(x) == <<x>>
NoError == "null"
NoWord == 0

Min(a, b) == IF a <= b THEN a ELSE b
Max(a, b) == IF a >= b THEN a ELSE b

Op(name) == [op |-> name, a |-> 0, b |-> 0]
OpRange(name, x, y) == [op |-> name, a |-> x, b |-> y]

\* Ends of the pieces of a division of [0, MaxTime] into at most n pieces.
Tilings(n) ==
    { b \in UNION { [1..k -> 1..MaxTime] : k \in 1..n } :
        /\ b[Len(b)] = MaxTime
        /\ \A i \in 1..(Len(b) - 1) : b[i] < b[i + 1] }

StartOf(b, i) == IF i = 1 THEN 0 ELSE b[i - 1]

\* Segment lists an analysis can return: they partition [0, duration], speech
\* and silence alternate, and either every segment is marked kept or the
\* silences are marked removed.
AnalysisSegments ==
    UNION { { [i \in 1..Len(b) |->
                 [start |-> StartOf(b, i), end |-> b[i], keep |-> k[i],
                  is_silence |-> (i % 2 = 0),
                  text |-> IF i % 2 = 0 THEN "" ELSE "speech"]] :
              k \in { [i \in 1..Len(b) |-> TRUE],
                      [i \in 1..Len(b) |-> i % 2 = 1] } } :
            b \in Tilings(MaxSegs) }

\* Transcripts an analysis can return: words ordered by start.
AnalysisTranscripts ==
    { [i \in 1..Len(b) |-> [start |-> StartOf(b, i), end |-> b[i]]] :
        b \in Tilings(MaxWords) } \cup {<<>>}

AnalysisResults ==
    [duration : {MaxTime}, segments : AnalysisSegments,
     transcript : AnalysisTranscripts]

\* Failures of a collaborator call, as the catch blocks read them.
Errs ==
    { [detail |-> "Project not found", message |-> "Request failed"],
      [detail |-> "", message |-> "Network Error"],
      [detail |-> "", message |-> ""] }

FileTypes == { <<"video", "mp4">>, <<"image", "png">> }

\* A request in flight, with what the awaiting handler keeps in its closure.
Request(o, p, s, f) == [op |-> o, pid |-> p, segs |-> s, files |-> f]
Requests(o) == { r \in BagToSet(outstanding) : r.op = o }
Issue(r) == outstanding (+) SetToBag({r})
Settle(r) == outstanding (-) SetToBag({r})

Keeps(segs) == [i \in 1..Len(segs) |-> segs[i].keep]

\* ------------------------------------------------------------------ Init
Init ==
    /\ screen = "upload"
    /\ projectId = NoProject
    /\ projectData = None
    /\ error = NoError
    /\ files = <<>>
    /\ segments = <<>>
    /\ activeTab = "timeline"
    /\ currentTime = 0
    /\ isSelecting = FALSE
    /\ selectionStart = NoWord
    /\ selectionEnd = NoWord
    /\ touchTimer = NoWord
    /\ pointer = "up"
    /\ outstanding = EmptyBag
    /\ timers = 0
    /\ opened = {}
    /\ uploads = 0
    /\ last = Op("init")

\* ------------------------------------------------------------- rendering
\* App renders EditorScreen only on the editor screen with project data.
EditorShown(s, pd) == s = "editor" /\ pd # None

\* EditorScreen renders Transcript only on the transcript tab.
TranscriptShown == EditorShown(screen, projectData) /\ activeTab = "transcript"

Transcript == projectData[1].transcript

\* The component state after App re-renders with the new screen and data: a
\* component that stays mounted keeps its state, one that is mounted starts
\* from its useState initialisers, one that is unmounted has none.
Render(newScreen, newData) ==
    LET was == EditorShown(screen, projectData)
        now == EditorShown(newScreen, newData)
    IN  /\ files' = IF screen = "upload" /\ newScreen = "upload"
                    THEN files ELSE <<>>
        /\ segments' = IF now THEN (IF was THEN segments
                                    ELSE newData[1].segments)
                       ELSE <<>>
        /\ activeTab' = IF now /\ was THEN activeTab ELSE "timeline"
        /\ currentTime' = IF now /\ was THEN currentTime ELSE 0
        /\ isSelecting' = IF now /\ was THEN isSelecting ELSE FALSE
        /\ selectionStart' = IF now /\ was THEN selectionStart ELSE NoWord
        /\ selectionEnd' = IF now /\ was THEN selectionEnd ELSE NoWord
        /\ UNCHANGED <<touchTimer, pointer>>

\* ------------------------------------------------------------ UploadScreen
IsVideo(file) == file[1] = "video"

\* Variant of handleFiles that appends the new files as they come.
handleFiles_NoFilter(newFiles) ==
    /\ screen = "upload"
    /\ Len(files) + Len(newFiles) <= MaxFiles
    /\ files' = files \o newFiles
    /\ last' = OpRange("handleFiles", Len(newFiles), Len(newFiles))
    /\ UNCHANGED <<appVars, editorVars, selectionVars, envVars>>

\* Files arrive from the picker or a drop: the videos among them are
\* appended to the pending list.
handleFiles(newFiles) ==
    /\ screen = "upload"
    /\ Len(files) + Len(newFiles) <= MaxFiles
    /\ files' = files \o SelectSeq(newFiles, IsVideo)
    /\ last' = OpRange("handleFiles", Len(newFiles),
                       Len(SelectSeq(newFiles, IsVideo)))
    /\ UNCHANGED <<appVars, editorVars, selectionVars, envVars>>

removeFile(index) ==
    /\ screen = "upload"
    /\ index \in 1..Len(files)
    /\ files' = [i \in 1..(Len(files) - 1) |->
                    IF i < index THEN files[i] ELSE files[i + 1]]
    /\ last' = Op("removeFile")
    /\ UNCHANGED <<appVars, editorVars, selectionVars, envVars>>

\* ---------------------------------------------------------- App.handleUpload
ErrorMessage(err, fallback) ==
    IF err.detail # "" THEN err.detail
    ELSE IF err.message # "" THEN err.message
    ELSE fallback

\* Variant of handleUpload that leaves the upload screen up while the upload
\* is in flight.
handleUpload_ScreenKept(fs) ==
    /\ error' = NoError
    /\ uploads' = uploads + 1
    /\ outstanding' = Issue(Request("upload", uploads + 1, <<>>, fs))
    /\ UNCHANGED <<screen, projectId, projectData, uploadVars, editorVars,
                   selectionVars, timers, opened>>

\* Up to the first await: the upload request is issued.
handleUpload(fs) ==
    /\ error' = NoError
    /\ screen' = "processing"
    /\ uploads' = uploads + 1
    /\ outstanding' = Issue(Request("upload", uploads + 1, <<>>, fs))
    /\ Render("processing", projectData)
    /\ UNCHANGED <<projectId, projectData, timers, opened>>

\* Variant of handleSubmit without the check of the file list.
handleSubmit_Unguarded ==
    /\ screen = "upload"
    /\ uploads < MaxUploads
    /\ handleUpload(files)
    /\ last' = Op("handleSubmit")

handleSubmit ==
    /\ screen = "upload"
    /\ uploads < MaxUploads
    /\ IF Len(files) > 0
       THEN handleUpload(files)
       ELSE UNCHANGED <<appVars, uploadVars, editorVars, selectionVars, envVars>>
    /\ last' = Op("handleSubmit")

\* Variant of uploadResolved that requests the analysis without storing the
\* project id.
uploadResolved_IdDropped(r) ==
    /\ r \in Requests("upload")
    /\ outstanding' = Settle(r) (+) SetToBag({Request("analyze", r.pid, <<>>, <<>>)})
    /\ last' = Op("uploadResolved")
    /\ UNCHANGED <<appVars, uploadVars, editorVars, selectionVars, timers,
                   opened, uploads>>

\* The upload resolved: the project id is stored and analysis is requested.
uploadResolved(r) ==
    /\ r \in Requests("upload")
    /\ projectId' = r.pid
    /\ outstanding' = Settle(r) (+) SetToBag({Request("analyze", r.pid, <<>>, <<>>)})
    /\ last' = Op("uploadResolved")
    /\ UNCHANGED <<screen, projectData, error, uploadVars, editorVars,
                   selectionVars, timers, opened, uploads>>

\* Variant of the catch block that reports the failure and stays on the
\* processing screen.
handleUploadCatch_Stuck(r, err) ==
    /\ error' = ErrorMessage(err, "Upload failed")
    /\ outstanding' = Settle(r)
    /\ UNCHANGED <<screen, projectId, projectData, uploadVars, editorVars,
                   selectionVars, timers, opened, uploads>>

\* The catch block of handleUpload.
handleUploadCatch(r, err) ==
    /\ error' = ErrorMessage(err, "Upload failed")
    /\ screen' = "upload"
    /\ outstanding' = Settle(r)
    /\ Render("upload", projectData)
    /\ UNCHANGED <<projectId, projectData, timers, opened, uploads>>

uploadRejected(r, err) ==
    /\ r \in Requests("upload")
    /\ handleUploadCatch(r, err)
    /\ last' = Op("uploadRejected")

\* The analysis resolved: its result becomes the project data.
analyzeResolved(r, result) ==
    /\ r \in Requests("analyze")
    /\ projectData' = Some(result)
    /\ screen' = "editor"
    /\ outstanding' = Settle(r)
    /\ Render("editor", Some(result))
    /\ last' = Op("analyzeResolved")
    /\ UNCHANGED <<projectId, error, timers, opened, uploads>>

analyzeRejected(r, err) ==
    /\ r \in Requests("analyze")
    /\ handleUploadCatch(r, err)
    /\ last' = Op("analyzeRejected")

\* ------------------------------------------------------------ EditorScreen
\* Variant of ToggleAt that moves an index outside the list to its nearest end.
ToggleAt_Clamped(segs, index) ==
    [i \in 1..Len(segs) |->
        IF i = Min(Max(index, 1), Len(segs))
        THEN [segs[i] EXCEPT !.keep = ~segs[i].keep] ELSE segs[i]]

\* Variant of ToggleAt that builds the toggled segment from its times alone.
ToggleAt_Bare(segs, index) ==
    [i \in 1..Len(segs) |->
        IF i = index
        THEN [start |-> segs[i].start, end |-> segs[i].end,
              keep |-> ~segs[i].keep]
        ELSE segs[i]]

\* Variant of ToggleAt that marks the segment removed whatever it was.
ToggleAt_Remove(segs, index) ==
    [i \in 1..Len(segs) |->
        IF i = index THEN [segs[i] EXCEPT !.keep = FALSE] ELSE segs[i]]

\* toggleSegment's update of the list: map() passes every other segment on.
ToggleAt(segs, index) ==
    [i \in 1..Len(segs) |->
        IF i = index THEN [segs[i] EXCEPT !.keep = ~segs[i].keep] ELSE segs[i]]

\* Variant of ToggleRange that marks the contained segments removed.
ToggleRange_Remove(segs, startTime, endTime) ==
    [i \in 1..Len(segs) |->
        IF segs[i].start >= startTime /\ segs[i].end <= endTime
        THEN [segs[i] EXCEPT !.keep = FALSE]
        ELSE segs[i]]

\* Variant of ToggleRange that flips every segment overlapping the range.
ToggleRange_Overlap(segs, startTime, endTime) ==
    [i \in 1..Len(segs) |->
        IF segs[i].start < endTime /\ segs[i].end > startTime
        THEN [segs[i] EXCEPT !.keep = ~segs[i].keep]
        ELSE segs[i]]

\* Variant of ToggleRange that gives the contained segments one keep value,
\* the opposite of the first contained segment's.
ToggleRange_Uniform(segs, startTime, endTime) ==
    LET inside == { i \in 1..Len(segs) :
                      segs[i].start >= startTime /\ segs[i].end <= endTime }
        first == CHOOSE i \in inside : \A j \in inside : i <= j
    IN  [i \in 1..Len(segs) |->
            IF i \in inside
            THEN [segs[i] EXCEPT !.keep = ~segs[first].keep]
            ELSE segs[i]]

\* toggleWordRange's update of the list.
ToggleRange(segs, startTime, endTime) ==
    [i \in 1..Len(segs) |->
        IF segs[i].start >= startTime /\ segs[i].end <= endTime
        THEN [segs[i] EXCEPT !.keep = ~segs[i].keep]
        ELSE segs[i]]

\* The stats of the header, computed from the store at every render.
totalDuration == projectData[1].duration

IsKept(s) == s.keep

\* reduce((acc, s) => acc + (s.end - s.start), acc) over segs.
RECURSIVE SumDurations(_, _)
SumDurations(segs, acc) ==
    IF segs = <<>> THEN acc
    ELSE SumDurations(Tail(segs), acc + (Head(segs).end - Head(segs).start))

\* Variant of keptDuration computed from the segments of the analysis result.
keptDuration_FromAnalysis ==
    SumDurations(SelectSeq(projectData[1].segments, IsKept), 0)

keptDuration == SumDurations(SelectSeq(segments, IsKept), 0)

removedDuration == totalDuration - keptDuration

\* A tap on a segment of the timeline or on a tick box of the segment list.
toggleSegment(index) ==
    /\ EditorShown(screen, projectData)
    /\ activeTab = "timeline"
    /\ pointer = "up"
    /\ index \in 1..Len(segments)
    /\ segments' = ToggleAt(segments, index)
    /\ last' = OpRange("toggleSegment", index, index)
    /\ UNCHANGED <<appVars, uploadVars, activeTab, currentTime, selectionVars,
                   envVars>>

\* The callback EditorScreen hands to Transcript as onToggleRange.
toggleWordRange(startTime, endTime) ==
    /\ EditorShown(screen, projectData)
    /\ segments' = ToggleRange(segments, startTime, endTime)
    /\ last' = OpRange("toggleWordRange", startTime, endTime)
    /\ UNCHANGED <<appVars, uploadVars, activeTab, currentTime, selectionVars,
                   envVars>>

\* The segments whose keep differs from the analysis result.
Edited ==
    { i \in 1..Len(segments) :
        segments[i].keep # projectData[1].segments[i].keep }

\* Variant of resetEdits that marks every segment kept.
resetEdits_KeepAll ==
    /\ EditorShown(screen, projectData)
    /\ pointer = "up"
    /\ segments' = [i \in 1..Len(segments) |->
                        [segments[i] EXCEPT !.keep = TRUE]]
    /\ last' = OpRange("resetEdits", Cardinality(Edited), 0)
    /\ UNCHANGED <<appVars, uploadVars, activeTab, currentTime, selectionVars,
                   envVars>>

\* The Reset button of the editor; last.a is the number of edits it undoes.
resetEdits ==
    /\ EditorShown(screen, projectData)
    /\ pointer = "up"
    /\ segments' = projectData[1].segments
    /\ last' = OpRange("resetEdits", Cardinality(Edited), 0)
    /\ UNCHANGED <<appVars, uploadVars, activeTab, currentTime, selectionVars,
                   envVars>>

\* The video element: the ref is created empty and no element is given it.
videoRef == None

\* The playback position after seekTo(time).
seekTo(time) == IF videoRef # None THEN time ELSE currentTime

\* Leaving the transcript tab unmounts Transcript and drops its selection.
setActiveTab(tab) ==
    /\ EditorShown(screen, projectData)
    /\ pointer = "up"
    /\ activeTab' = tab
    /\ isSelecting' = IF tab = activeTab THEN isSelecting ELSE FALSE
    /\ selectionStart' = IF tab = activeTab THEN selectionStart ELSE NoWord
    /\ selectionEnd' = IF tab = activeTab THEN selectionEnd ELSE NoWord
    /\ last' = Op("setActiveTab")
    /\ UNCHANGED <<appVars, uploadVars, segments, currentTime, touchTimer,
                   pointer, envVars>>

\* ---------------------------------------------------------------- Timeline
\* The pixel columns of the timeline a click can land on, in seconds: the
\* strip is at least 300 pixels wide, so it can reach past the duration.
ClickTimes == 0..(MaxTime + 1)

\* Variant of the timeline's clamp that passes the clicked time on as it is.
ClampTime_None(time) == time

\* The time a click on the timeline asks for.
ClampTime(time) == Max(0, Min(time, totalDuration))

\* A click on the timeline strip, at the column of the given time.
handleTimelineClick(time) ==
    /\ EditorShown(screen, projectData)
    /\ activeTab = "timeline"
    /\ pointer = "up"
    /\ currentTime' = seekTo(ClampTime(time))
    /\ last' = OpRange("handleTimelineClick", time, ClampTime(time))
    /\ UNCHANGED <<appVars, uploadVars, segments, activeTab, selectionVars,
                   envVars>>

\* A tap on the text of an item of the segment list.
onSeek(index) ==
    /\ EditorShown(screen, projectData)
    /\ activeTab = "timeline"
    /\ pointer = "up"
    /\ index \in 1..Len(segments)
    /\ currentTime' = seekTo(segments[index].start)
    /\ last' = OpRange("onSeek", index, segments[index].start)
    /\ UNCHANGED <<appVars, uploadVars, segments, activeTab, selectionVars,
                   envVars>>

\* -------------------------------------------------------------- Transcript
IsRemoved(s) == ~s.keep

\* The time ranges of the removed segments, as every render computes them.
removedRanges ==
    LET removed == SelectSeq(segments, IsRemoved)
    IN  [i \in 1..Len(removed) |->
            [start |-> removed[i].start, end |-> removed[i].end]]

\* Variant of isWordRemoved that asks for an overlap with a removed range.
isWordRemoved_Overlap(start, end) ==
    \E i \in 1..Len(removedRanges) :
        start < removedRanges[i].end /\ end > removedRanges[i].start

\* Whether a word is drawn struck through.
isWordRemoved(start, end) ==
    \E i \in 1..Len(removedRanges) :
        start >= removedRanges[i].start /\ end <= removedRanges[i].end

\* The playback position after a click on a word, as the handler rendered
\* with isSelecting = selecting leaves it.
handleWordClick(word, selecting) ==
    IF selecting THEN currentTime ELSE seekTo(Transcript[word].start)

\* The selection starts at a word: anchor and focus are both that word.
handleWordLongPress(word) ==
    /\ isSelecting' = TRUE
    /\ selectionStart' = word
    /\ selectionEnd' = word

\* Variant of handleSelectionEnd that takes the range from the anchor's start
\* to the focus's end.
handleSelectionEnd_Directed ==
    /\ IF selectionStart # NoWord /\ selectionEnd # NoWord
       THEN LET start == Transcript[selectionStart].start
                end == Transcript[selectionEnd].end
            IN  /\ segments' = ToggleRange(segments, start, end)
                /\ last' = OpRange("toggleWordRange", start, end)
       ELSE /\ segments' = segments
            /\ last' = Op("handleSelectionEnd")
    /\ isSelecting' = FALSE
    /\ selectionStart' = NoWord
    /\ selectionEnd' = NoWord

\* The range of the selection is toggled and the selection is dropped.
handleSelectionEnd ==
    /\ IF selectionStart # NoWord /\ selectionEnd # NoWord
       THEN LET start == Min(Transcript[selectionStart].start,
                             Transcript[selectionEnd].start)
                end == Max(Transcript[selectionStart].end,
                           Transcript[selectionEnd].end)
            IN  /\ segments' = ToggleRange(segments, start, end)
                /\ last' = OpRange("toggleWordRange", start, end)
       ELSE /\ segments' = segments
            /\ last' = Op("handleSelectionEnd")
    /\ isSelecting' = FALSE
    /\ selectionStart' = NoWord
    /\ selectionEnd' = NoWord

\* The mouse button goes down on a word.
wordMouseDown(word) ==
    /\ TranscriptShown
    /\ pointer = "up"
    /\ word \in 1..Len(Transcript)
    /\ handleWordLongPress(word)
    /\ pointer' = "mouse"
    /\ last' = OpRange("wordMouseDown", word, word)
    /\ UNCHANGED <<appVars, uploadVars, editorVars, touchTimer, envVars>>

\* The mouse button has been down for the long-press time; no handler runs.
holdElapsed ==
    /\ pointer = "mouse"
    /\ pointer' = "mouseHeld"
    /\ last' = Op("holdElapsed")
    /\ UNCHANGED <<appVars, uploadVars, editorVars, isSelecting, selectionStart,
                   selectionEnd, touchTimer, envVars>>

\* Variant of handleWordHover that moves the anchor along with the focus.
handleWordHover_MovesAnchor(word) ==
    /\ TranscriptShown
    /\ pointer # "touch"
    /\ word \in 1..Len(Transcript)
    /\ selectionEnd' = IF isSelecting /\ selectionStart # NoWord
                       THEN word ELSE selectionEnd
    /\ selectionStart' = IF isSelecting /\ selectionStart # NoWord
                         THEN word ELSE selectionStart
    /\ last' = OpRange("handleWordHover", word, word)
    /\ UNCHANGED <<appVars, uploadVars, editorVars, isSelecting, touchTimer,
                   pointer, envVars>>

\* The mouse enters a word, with the button down or up.
handleWordHover(word) ==
    /\ TranscriptShown
    /\ pointer # "touch"
    /\ word \in 1..Len(Transcript)
    /\ selectionEnd' = IF isSelecting /\ selectionStart # NoWord
                       THEN word ELSE selectionEnd
    /\ last' = OpRange("handleWordHover", word, word)
    /\ UNCHANGED <<appVars, uploadVars, editorVars, isSelecting,
                   selectionStart, touchTimer, pointer, envVars>>

\* The mouse button goes up inside the transcript, over a word or over none
\* (NoWord): the container's mouse-up handler runs, then the click handler of
\* the word if the button went down on that same word.
wordMouseUp(word) ==
    /\ TranscriptShown
    /\ pointer \in {"mouse", "mouseHeld"}
    /\ word \in 0..Len(Transcript)
    /\ IF isSelecting
       THEN handleSelectionEnd
       ELSE /\ last' = Op("wordMouseUp")
            /\ UNCHANGED <<segments, isSelecting, selectionStart, selectionEnd>>
    /\ currentTime' = IF word # NoWord /\ word = selectionStart
                      THEN handleWordClick(word, isSelecting')
                      ELSE currentTime
    /\ pointer' = "up"
    /\ UNCHANGED <<appVars, uploadVars, activeTab, touchTimer, envVars>>

\* The mouse button goes up outside the transcript: no handler runs.
mouseUpOutside ==
    /\ pointer \in {"mouse", "mouseHeld"}
    /\ pointer' = "up"
    /\ last' = Op("mouseUpOutside")
    /\ UNCHANGED <<appVars, uploadVars, editorVars, isSelecting, selectionStart,
                   selectionEnd, touchTimer, envVars>>

\* A finger goes down on a word: the long-press timer is set.
handleTouchStart(word) ==
    /\ TranscriptShown
    /\ pointer = "up"
    /\ word \in 1..Len(Transcript)
    /\ touchTimer' = word
    /\ pointer' = "touch"
    /\ last' = OpRange("handleTouchStart", word, word)
    /\ UNCHANGED <<appVars, uploadVars, editorVars, isSelecting, selectionStart,
                   selectionEnd, envVars>>

\* The long-press timer fires.
longPressTimer ==
    /\ TranscriptShown
    /\ touchTimer # NoWord
    /\ handleWordLongPress(touchTimer)
    /\ touchTimer' = NoWord
    /\ last' = OpRange("longPressTimer", touchTimer, touchTimer)
    /\ UNCHANGED <<appVars, uploadVars, editorVars, pointer, envVars>>

\* Variant of handleTouchMove that moves the focus whether or not a selection
\* is active.
handleTouchMove_Unguarded(word) ==
    /\ TranscriptShown
    /\ pointer = "touch"
    /\ word \in 1..Len(Transcript)
    /\ selectionEnd' = word
    /\ last' = OpRange("handleTouchMove", word, word)
    /\ UNCHANGED <<appVars, uploadVars, editorVars, isSelecting,
                   selectionStart, touchTimer, pointer, envVars>>

\* The finger moves over a word.
handleTouchMove(word) ==
    /\ TranscriptShown
    /\ pointer = "touch"
    /\ word \in 1..Len(Transcript)
    /\ selectionEnd' = IF isSelecting THEN word ELSE selectionEnd
    /\ last' = OpRange("handleTouchMove", word, word)
    /\ UNCHANGED <<appVars, uploadVars, editorVars, isSelecting,
                   selectionStart, touchTimer, pointer, envVars>>

\* The finger is lifted: the timer is cleared and a selection is ended; after
\* a tap (the timer was still pending) the click handler of the word runs.
handleTouchEnd ==
    /\ TranscriptShown
    /\ pointer = "touch"
    /\ touchTimer' = NoWord
    /\ IF isSelecting
       THEN handleSelectionEnd
       ELSE /\ last' = Op("handleTouchEnd")
            /\ UNCHANGED <<segments, isSelecting, selectionStart, selectionEnd>>
    /\ currentTime' = IF touchTimer # NoWord
                      THEN handleWordClick(touchTimer, isSelecting')
                      ELSE currentTime
    /\ pointer' = "up"
    /\ UNCHANGED <<appVars, uploadVars, activeTab, envVars>>

\* The Remove button of the selection bar.
removeSelection ==
    /\ TranscriptShown
    /\ isSelecting
    /\ pointer = "up"
    /\ handleSelectionEnd
    /\ UNCHANGED <<appVars, uploadVars, activeTab, currentTime, touchTimer,
                   pointer, envVars>>

\* Variant of the Cancel button that ends the selection as a release does.
cancelSelection_Commit ==
    /\ TranscriptShown
    /\ isSelecting
    /\ pointer = "up"
    /\ segments' = IF selectionStart # NoWord /\ selectionEnd # NoWord
                   THEN ToggleRange(segments,
                                    Min(Transcript[selectionStart].start,
                                        Transcript[selectionEnd].start),
                                    Max(Transcript[selectionStart].end,
                                        Transcript[selectionEnd].end))
                   ELSE segments
    /\ isSelecting' = FALSE
    /\ selectionStart' = NoWord
    /\ selectionEnd' = NoWord
    /\ last' = Op("cancelSelection")
    /\ UNCHANGED <<appVars, uploadVars, activeTab, currentTime, touchTimer,
                   pointer, envVars>>

\* The Cancel button of the selection bar.
cancelSelection ==
    /\ TranscriptShown
    /\ isSelecting
    /\ pointer = "up"
    /\ isSelecting' = FALSE
    /\ selectionStart' = NoWord
    /\ selectionEnd' = NoWord
    /\ last' = Op("cancelSelection")
    /\ UNCHANGED <<appVars, uploadVars, editorVars, touchTimer, pointer, envVars>>

\* ---------------------------------------------------------- App.handleExport
\* Variant of handleExport that persists the segments of the analysis result.
handleExport_Baseline ==
    /\ EditorShown(screen, projectData)
    /\ pointer = "up"
    /\ error' = NoError
    /\ screen' = "processing"
    /\ outstanding' = Issue(Request("persist", projectId,
                                    projectData[1].segments, <<>>))
    /\ Render("processing", projectData)
    /\ last' = OpRange("handleExport", IF error = NoError THEN 0 ELSE 1, 0)
    /\ UNCHANGED <<projectId, projectData, timers, opened, uploads>>

\* Variant of handleExport that leaves the error message as it is.
handleExport_ErrorKept ==
    /\ EditorShown(screen, projectData)
    /\ pointer = "up"
    /\ screen' = "processing"
    /\ outstanding' = Issue(Request("persist", projectId, segments, <<>>))
    /\ Render("processing", projectData)
    /\ last' = OpRange("handleExport", IF error = NoError THEN 0 ELSE 1, 0)
    /\ UNCHANGED <<projectId, projectData, error, timers, opened, uploads>>

\* The Export button: up to the first await, the persist request is issued
\* with the segments EditorScreen passes and the project id of the render.
handleExport ==
    /\ EditorShown(screen, projectData)
    /\ pointer = "up"
    /\ error' = NoError
    /\ screen' = "processing"
    /\ outstanding' = Issue(Request("persist", projectId, segments, <<>>))
    /\ Render("processing", projectData)
    /\ last' = OpRange("handleExport", IF error = NoError THEN 0 ELSE 1, 0)
    /\ UNCHANGED <<projectId, projectData, timers, opened, uploads>>

\* The persist call resolved: the export is requested.
persistResolved(r) ==
    /\ r \in Requests("persist")
    /\ outstanding' = Settle(r) (+) SetToBag({Request("export", r.pid, r.segs, <<>>)})
    /\ last' = Op("persistResolved")
    /\ UNCHANGED <<appVars, uploadVars, editorVars, selectionVars, timers,
                   opened, uploads>>

\* The catch block of handleExport.
handleExportCatch(r, err) ==
    /\ error' = ErrorMessage(err, "Export failed")
    /\ screen' = "editor"
    /\ outstanding' = Settle(r)
    /\ Render("editor", projectData)
    /\ UNCHANGED <<projectId, projectData, timers, opened, uploads>>

persistRejected(r, err) ==
    /\ r \in Requests("persist")
    /\ handleExportCatch(r, err)
    /\ last' = Op("persistRejected")

\* Variant of exportResolved that resets at once instead of setting the timer.
exportResolved_NoCooldown(r) ==
    /\ r \in Requests("export")
    /\ opened' = opened \cup {r.pid}
    /\ outstanding' = Settle(r)
    /\ screen' = "upload"
    /\ projectId' = NoProject
    /\ projectData' = None
    /\ Render("upload", None)
    /\ last' = Op("exportResolved")
    /\ UNCHANGED <<error, timers, uploads>>

\* The export resolved: the download is opened and the cool-down timer set.
exportResolved(r) ==
    /\ r \in Requests("export")
    /\ opened' = opened \cup {r.pid}
    /\ timers' = timers + 1
    /\ outstanding' = Settle(r)
    /\ last' = Op("exportResolved")
    /\ UNCHANGED <<appVars, uploadVars, editorVars, selectionVars, uploads>>

exportRejected(r, err) ==
    /\ r \in Requests("export")
    /\ handleExportCatch(r, err)
    /\ last' = Op("exportRejected")

\* The cool-down timer fires.
cooldownElapsed ==
    /\ timers > 0
    /\ timers' = timers - 1
    /\ screen' = "upload"
    /\ projectId' = NoProject
    /\ projectData' = None
    /\ Render("upload", None)
    /\ last' = Op("cooldownElapsed")
    /\ UNCHANGED <<error, outstanding, opened, uploads>>

\* ----------------------------------------------------------- App.handleReset
handleReset ==
    /\ EditorShown(screen, projectData)
    /\ pointer = "up"
    /\ outstanding' = IF projectId # NoProject
                      THEN Issue(Request("delete", projectId, <<>>, <<>>))
                      ELSE outstanding
    /\ screen' = "upload"
    /\ projectId' = NoProject
    /\ projectData' = None
    /\ error' = NoError
    /\ Render("upload", None)
    /\ last' = Op("handleReset")
    /\ UNCHANGED <<timers, opened, uploads>>

\* Variant of deleteSettled that reports the outcome in the error banner.
deleteSettled_Surfaced(r) ==
    /\ r \in Requests("delete")
    /\ outstanding' = Settle(r)
    /\ error' = "Delete failed"
    /\ last' = Op("deleteSettled")
    /\ UNCHANGED <<screen, projectId, projectData, uploadVars, editorVars,
                   selectionVars, timers, opened, uploads>>

\* The delete call resolved or was rejected: both outcomes are dropped.
deleteSettled(r) ==
    /\ r \in Requests("delete")
    /\ outstanding' = Settle(r)
    /\ last' = Op("deleteSettled")
    /\ UNCHANGED <<appVars, uploadVars, editorVars, selectionVars, timers,
                   opened, uploads>>

\* Variant of the Dismiss button that also leaves for the upload screen.
dismissError_Reset ==
    /\ error # NoError
    /\ error # ""
    /\ pointer = "up"
    /\ error' = NoError
    /\ screen' = "upload"
    /\ Render("upload", projectData)
    /\ last' = Op("dismissError")
    /\ UNCHANGED <<projectId, projectData, envVars>>

\* The Dismiss button of the error banner, shown while error is truthy.
dismissError ==
    /\ error # NoError
    /\ error # ""
    /\ pointer = "up"
    /\ error' = NoError
    /\ last' = Op("dismissError")
    /\ UNCHANGED <<screen, projectId, projectData, uploadVars, editorVars,
                   selectionVars, envVars>>

\* -------------------------------------------------------------------- Next
NewFiles == UNION { [1..n -> FileTypes] : n \in 1..MaxFiles }
Pending == BagToSet(outstanding)

Respond ==
    \/ \E r \in Pending : uploadResolved(r)
    \/ \E r \in Pending, err \in Errs : uploadRejected(r, err)
    \/ \E r \in Pending, result \in AnalysisResults : analyzeResolved(r, result)
    \/ \E r \in Pending, err \in Errs : analyzeRejected(r, err)
    \/ \E r \in Pending : persistResolved(r)
    \/ \E r \in Pending, err \in Errs : persistRejected(r, err)
    \/ \E r \in Pending : exportResolved(r)
    \/ \E r \in Pending, err \in Errs : exportRejected(r, err)

\* The taps and pointer events that name one of nSegs segments or one of
\* nWords words.
Pick(nSegs, nWords) ==
    \/ \E index \in 1..nSegs : toggleSegment(index)
    \/ \E index \in 1..nSegs : onSeek(index)
    \/ \E word \in 1..nWords : wordMouseDown(word)
    \/ \E word \in 1..nWords : handleWordHover(word)
    \/ \E word \in 0..nWords : wordMouseUp(word)
    \/ \E word \in 1..nWords : handleTouchStart(word)
    \/ \E word \in 1..nWords : handleTouchMove(word)

Next ==
    \/ \E newFiles \in NewFiles : handleFiles(newFiles)
    \/ \E index \in 1..MaxFiles : removeFile(index)
    \/ handleSubmit
    \/ Respond
    \/ Pick(MaxSegs, MaxWords)
    \/ resetEdits
    \/ \E time \in ClickTimes : handleTimelineClick(time)
    \/ \E tab \in {"timeline", "transcript"} : setActiveTab(tab)
    \/ holdElapsed
    \/ mouseUpOutside
    \/ longPressTimer
    \/ handleTouchEnd
    \/ removeSelection
    \/ cancelSelection
    \/ handleExport
    \/ cooldownElapsed
    \/ handleReset
    \/ \E r \in Pending : deleteSettled(r)
    \/ dismissError

Spec == Init /\ [][Next]_vars

\* Every collaborator call settles and every timer fires.
FairSpec == Spec /\ WF_vars(Respond) /\ WF_vars(cooldownElapsed)

\* An analysis result of 10 seconds in three segments, all kept, with one
\* word over each segment.
ScenarioResult ==
    [duration |-> 10,
     segments |-> << [start |-> 0, end |-> 4, keep |-> TRUE,
                      is_silence |-> FALSE, text |-> "speech"],
                     [start |-> 4, end |-> 6, keep |-> TRUE,
                      is_silence |-> TRUE, text |-> ""],
                     [start |-> 6, end |-> 10, keep |-> TRUE,
                      is_silence |-> FALSE, text |-> "speech"] >>,
     transcript |-> << [start |-> 0, end |-> 4], [start |-> 4, end |-> 6],
                       [start |-> 6, end |-> 10] >>]

\* The program when the analysis may also return ScenarioResult.
ScenarioNext ==
    \/ Next
    \/ \E r \in Pending : analyzeResolved(r, ScenarioResult)
    \/ Pick(Len(ScenarioResult.segments), Len(ScenarioResult.transcript))

ScenarioSpec == Init /\ [][ScenarioNext]_vars

\* The segment store on its own: an analysis result has just been opened in
\* the editor, and toggleSegment and toggleWordRange are called with any
\* index and any pair of times.
ToggleInit ==
    /\ screen = "editor"
    /\ projectId = 1
    /\ projectData \in { Some(result) : result \in AnalysisResults }
    /\ error = NoError
    /\ files = <<>>
    /\ segments = projectData[1].segments
    /\ activeTab = "timeline"
    /\ currentTime = 0
    /\ isSelecting = FALSE
    /\ selectionStart = NoWord
    /\ selectionEnd = NoWord
    /\ touchTimer = NoWord
    /\ pointer = "up"
    /\ outstanding = EmptyBag
    /\ timers = 0
    /\ opened = {}
    /\ uploads = 1
    /\ last = Op("analyzeResolved")

ToggleNext ==
    \/ \E index \in 1..MaxSegs : toggleSegment(index)
    \/ \E startTime, endTime \in 0..MaxTime :
          toggleWordRange(startTime, endTime)

ToggleSpec == ToggleInit /\ [][ToggleNext]_vars

\* ------------------------------------------------------------------ claims
MainOps == {"upload", "analyze", "persist", "export"}

\* The number of upload, analyze, persist and export requests in flight.
MainInFlight ==
    LET main == { r \in Pending : r.op \in MainOps }
    IN  BagCardinality([r \in main |-> CopiesIn(r, outstanding)])

\* Segment i of segs overlaps [a, b] without lying inside it.
PartlyInside(segs, i, a, b) ==
    /\ segs[i].start < b
    /\ segs[i].end > a
    /\ ~(segs[i].start >= a /\ segs[i].end <= b)

\* C1: when the persist call or the export call fails, the workflow is back
\* in Editing and every segment's keep value is the one it had when export
\* was invoked (the one the failed request carries).
C1_ExportFailureKeepsEdits ==
    [][last'.op \in {"persistRejected", "exportRejected"} =>
          /\ screen' = "editor"
          /\ \A r \in Requests("persist") \cup Requests("export") :
                Keeps(segments') = Keeps(r.segs)]_vars

\* C2: whenever the upload screen is shown (Idle), no project is held: the
\* project id and the project data are both empty.
C2_IdleHoldsNoProject ==
    screen = "upload" => projectId = NoProject /\ projectData = None

\* C3: after a failed upload or a failed analysis the workflow is Idle with a
\* non-empty error message; after a failed upload no project is held and no
\* analyze request is in flight.
C3_UploadFailureToIdle ==
    /\ last.op \in {"uploadRejected", "analyzeRejected"} =>
          screen = "upload" /\ error # NoError /\ error # ""
    /\ last.op = "uploadRejected" =>
          /\ projectId = NoProject
          /\ projectData = None
          /\ Requests("analyze") = {}

\* C4: a submit with an empty file list changes neither the workflow state
\* nor the error message and issues no request.
C4_EmptySubmitRefused ==
    [][last'.op = "handleSubmit" /\ files = <<>> =>
          /\ screen = "upload" /\ screen' = "upload"
          /\ error' = error
          /\ outstanding' = outstanding
          /\ uploads' = uploads
          /\ UNCHANGED <<projectId, projectData>>]_vars

\* A submit was refused while an error message was shown.
C4_Witness ==
    /\ last.op = "handleSubmit"
    /\ screen = "upload"
    /\ error # NoError
    /\ outstanding = EmptyBag

\* C5: export issues the persist request first, carrying the segment store
\* as it is at that moment and the held project id; the export request
\* appears only when that persist request resolves, for the same project.
C5_PersistBeforeExport ==
    [][/\ last'.op = "handleExport" =>
            /\ projectId # NoProject
            /\ Requests("export")' = {}
            /\ Requests("persist")' =
                  {Request("persist", projectId, segments, <<>>)}
       /\ Requests("export")' # Requests("export") /\ Requests("export")' # {} =>
            /\ last'.op = "persistResolved"
            /\ Requests("persist")' = {}
            /\ \E r \in Requests("persist") :
                  Requests("export")' =
                      {Request("export", r.pid, r.segs, <<>>)}
       /\ \A r \in Requests("persist")' \cup Requests("export")' :
            r.pid = projectId']_vars

\* An export request is in flight for a project whose edits were persisted.
C5_Witness ==
    \E r \in Requests("export") :
        /\ r.pid = projectId
        /\ Keeps(r.segs) # Keeps(projectData[1].segments)

\* C6: a successful export opens the download and sets the cool-down timer
\* while the processing screen stays up with the project held; only the
\* timer firing ends the cool-down, and it leaves Idle with no project.
C6_CooldownThenIdle ==
    [][/\ last'.op = "exportResolved" =>
            /\ projectId \in opened'
            /\ timers' = 1
       /\ timers' > 0 =>
            /\ screen' = "processing"
            /\ projectId' # NoProject
            /\ projectId' \in opened'
            /\ projectData' # None
       /\ timers > 0 /\ (screen' # "processing" \/ timers' = 0) =>
            last'.op = "cooldownElapsed"
       /\ last'.op = "cooldownElapsed" =>
            /\ timers > 0
            /\ screen' = "upload"
            /\ projectId' = NoProject
            /\ projectData' = None]_vars

\* The cool-down of a delivered export has elapsed.
C6_Witness ==
    /\ last.op = "cooldownElapsed"
    /\ opened # {}
    /\ screen = "upload"
    /\ projectId = NoProject

\* C7: reset goes to Idle and clears the project in the step that issues the
\* delete request, which is still in flight afterwards; the outcome of a
\* delete request changes nothing but the set of requests in flight.
C7_ResetFireAndForget ==
    [][/\ last'.op = "handleReset" =>
            /\ screen' = "upload"
            /\ projectId' = NoProject
            /\ projectData' = None
            /\ projectId # NoProject =>
                  outstanding' =
                      Issue(Request("delete", projectId, <<>>, <<>>))
       /\ last'.op = "deleteSettled" =>
            UNCHANGED <<appVars, uploadVars, editorVars, selectionVars,
                        timers, opened, uploads>>]_vars

\* The outcome of a delete request arrived while a later project was edited.
C7_Witness ==
    /\ last.op = "deleteSettled"
    /\ screen = "editor"
    /\ projectId # NoProject

\* C8: at most one of the upload, analyze, persist and export requests and
\* the cool-down timer is pending, and while one is, the processing screen
\* is up, so that neither submit nor export can be started.
C8_OneOutstanding ==
    /\ MainInFlight + timers <= 1
    /\ MainInFlight + timers = 1 => screen = "processing"

\* A request of the workflow is in flight next to a delete request.
C8_Witness ==
    /\ MainInFlight = 1
    /\ Requests("delete") # {}

\* C9: a failed upload or analysis leads to Idle, a failed persist or export
\* to Editing, and the processing screen is always left eventually.
C9_ProcessingEnds ==
    /\ [](last.op \in {"uploadRejected", "analyzeRejected"} =>
            screen = "upload")
    /\ [](last.op \in {"persistRejected", "exportRejected"} =>
            EditorShown(screen, projectData))
    /\ (screen = "processing") ~> (screen \in {"upload", "editor"})

\* A failed export has led back to the editor.
C9_Witness ==
    /\ last.op = "exportRejected"
    /\ EditorShown(screen, projectData)
    /\ error # NoError

\* C10: toggleRange(a, b) flips keep of exactly the segments with start >= a
\* and end <= b, and leaves every other segment's keep as it was.
C10_ToggleRangeContained ==
    [][last'.op = "toggleWordRange" =>
          /\ Len(segments') = Len(segments)
          /\ \A i \in 1..Len(segments) :
                segments'[i].keep =
                    IF segments[i].start >= last'.a /\ segments[i].end <= last'.b
                    THEN ~segments[i].keep
                    ELSE segments[i].keep]_vars

\* A range was toggled that holds only a part of some segment.
C10_Witness ==
    /\ last.op = "toggleWordRange"
    /\ \E i \in 1..Len(segments) : PartlyInside(segments, i, last.a, last.b)

\* C11: toggleRange(a, b) applied twice in a row gives every segment the keep
\* value it had before the first application, for every store the editor can
\* hold and every pair of bounds.
C11_ToggleRangeTwice ==
    EditorShown(screen, projectData) =>
        \A a, b \in 0..MaxTime :
            ToggleRange(ToggleRange(segments, a, b), a, b) = segments

\* A range that flips something has been toggled, and toggling it again is
\* what leads back to the analysis result.
C11_Witness ==
    /\ last.op = "toggleWordRange"
    /\ Edited # {}
    /\ ToggleRange(segments, last.a, last.b) = projectData[1].segments

\* C12: toggle(index) with a valid index flips keep of that segment and of no
\* other and raises no error; with an index outside the list it leaves the
\* store as it is.
C12_ToggleOneOrNone ==
    /\ [][last'.op = "toggleSegment" =>
            /\ Len(segments') = Len(segments)
            /\ \A i \in 1..Len(segments) :
                  segments'[i] =
                      IF i = last'.a
                      THEN [segments[i] EXCEPT !.keep = ~segments[i].keep]
                      ELSE segments[i]
            /\ error' = error]_vars
    /\ [](EditorShown(screen, projectData) =>
            \A index \in {-1, 0, Len(segments) + 1, Len(segments) + 2} :
                ToggleAt(segments, index) = segments)

\* One segment of several has been toggled and is the only one edited.
C12_Witness ==
    /\ last.op = "toggleSegment"
    /\ Len(segments) > 1
    /\ Edited = {last.a}

\* C13: toggle(i) applied twice in a row gives back the keep values the store
\* had before, for every store the editor can hold and every index.
C13_ToggleTwice ==
    EditorShown(screen, projectData) =>
        \A i \in 0..(Len(segments) + 1) :
            ToggleAt(ToggleAt(segments, i), i) = segments

\* A segment has been toggled, and toggling it again is what leads back to
\* the analysis result.
C13_Witness ==
    /\ last.op = "toggleSegment"
    /\ Edited = {last.a}
    /\ ToggleAt(segments, last.a) = projectData[1].segments

\* C14: reset() gives every segment the keep value of the analysis result of
\* the active project, issues no collaborator request and leaves the screen,
\* the project and the error as they were.
C14_ResetRestoresAnalysis ==
    [][last'.op = "resetEdits" =>
          /\ segments' = projectData[1].segments
          /\ outstanding' = outstanding
          /\ UNCHANGED appVars]_vars

\* A reset has undone edits of more than one segment.
C14_Witness ==
    /\ last.op = "resetEdits"
    /\ last.a > 1
    /\ Edited = {}

\* The time covered by the segments of segs whose index is in S.
RECURSIVE TimeOf(_, _)
TimeOf(segs, S) ==
    IF S = {} THEN 0
    ELSE LET i == CHOOSE i \in S : TRUE
         IN  (segs[i].end - segs[i].start) + TimeOf(segs, S \ {i})

\* C16: in every Editing state keptDuration is the sum of end - start over the
\* segments the store keeps now; the segments partition [0, duration], so
\* removedDuration is the sum over the removed segments and lies between 0 and
\* the duration.  With duration 10 and segments [0,4], [4,6], [6,10] all
\* kept, toggleRange(4, 6) removes the second segment: kept 8, removed 2.
C16_StatsFromCurrentStore ==
    /\ [](EditorShown(screen, projectData) =>
            LET kept == { i \in 1..Len(segments) : segments[i].keep }
            IN  /\ keptDuration = TimeOf(segments, kept)
                /\ removedDuration =
                       TimeOf(segments, (1..Len(segments)) \ kept)
                /\ 0 <= removedDuration
                /\ removedDuration <= totalDuration)
    /\ [][(/\ EditorShown(screen, projectData)
           /\ projectData = Some(ScenarioResult)
           /\ segments = ScenarioResult.segments
           /\ last' = OpRange("toggleWordRange", 4, 6))
          => /\ Keeps(segments') = <<TRUE, FALSE, TRUE>>
             /\ keptDuration' = 8
             /\ removedDuration' = 2]_vars

\* The example: toggleRange(4, 6) on the three kept segments.
C16_Witness ==
    /\ EditorShown(screen, projectData)
    /\ projectData = Some(ScenarioResult)
    /\ last = OpRange("toggleWordRange", 4, 6)
    /\ Keeps(segments) = <<TRUE, FALSE, TRUE>>
    /\ keptDuration = 8
    /\ removedDuration = 2

\* C17: in every Editing state the store has the segments of the analysis
\* result, in the same number and order, each with the start, end, is_silence
\* and text it came with: toggle, toggleRange and reset change keep only.
C17_OnlyKeepChanges ==
    EditorShown(screen, projectData) =>
        /\ Len(segments) = Len(projectData[1].segments)
        /\ \A i \in 1..Len(segments) :
              /\ segments[i].start = projectData[1].segments[i].start
              /\ segments[i].end = projectData[1].segments[i].end
              /\ DOMAIN segments[i] = DOMAIN projectData[1].segments[i]
              /\ segments[i].is_silence = projectData[1].segments[i].is_silence
              /\ segments[i].text = projectData[1].segments[i].text

\* Every one of several segments has been edited.
C17_Witness ==
    /\ EditorShown(screen, projectData)
    /\ Len(segments) > 1
    /\ Edited = 1..Len(segments)

\* A press on a word that has not lasted the long-press time.
ShortPress ==
    \/ pointer = "mouse"
    \/ pointer = "touch" /\ touchTimer # NoWord

\* C18: when a press on a word is released before the long-press time (a tap
\* or a click), no selection has been started and the release changes no keep
\* value and nothing else of the editor but the playback position.
C18_TapOnlySeeks ==
    [][(ShortPress /\ pointer' = "up" /\ last'.op # "mouseUpOutside") =>
          /\ ~isSelecting
          /\ UNCHANGED <<appVars, segments, activeTab, isSelecting,
                         selectionStart, selectionEnd>>]_vars

\* The button or the finger goes up inside the transcript.
Released ==
    /\ pointer # "up"
    /\ pointer' = "up"
    /\ last'.op # "mouseUpOutside"

C20_FocusUpdateOnlyFocus ==
    [][(isSelecting /\ last'.op \in {"handleWordHover", "handleTouchMove"}) =>
          /\ selectionEnd' = last'.a
          /\ UNCHANGED <<appVars, uploadVars, editorVars, isSelecting,
                         selectionStart, touchTimer, pointer, envVars>>]_vars

\* A finger has moved the focus to a word before the anchor.
C20_Witness ==
    /\ last.op = "handleTouchMove"
    /\ isSelecting
    /\ selectionEnd = last.a
    /\ selectionEnd < selectionStart

\* C21: the Cancel button drops the pending selection (no anchor, no focus,
\* not selecting) and changes no segment, and it leaves no press or timer
\* behind that could end the gesture later: a toggleRange is only ever made
\* from a state in which a selection is active.
C21_CancelDiscards ==
    /\ [][last'.op = "cancelSelection" =>
            /\ isSelecting
            /\ ~isSelecting'
            /\ selectionStart' = NoWord
            /\ selectionEnd' = NoWord
            /\ pointer' = "up"
            /\ touchTimer' = NoWord
            /\ UNCHANGED <<appVars, uploadVars, editorVars, envVars>>]_vars
    /\ [][last'.op = "toggleWordRange" =>
            isSelecting /\ selectionStart # NoWord /\ selectionEnd # NoWord]_vars

\* A selection has been cancelled in a transcript of several words, with
\* edits made before it still in the store.
C21_Witness ==
    /\ last.op = "cancelSelection"
    /\ ~isSelecting
    /\ Edited # {}
    /\ Len(Transcript) > 1

\* Segment seg and word share some time.
Overlaps(seg, word) == seg.start < word.end /\ seg.end > word.start

\* Segment seg holds the whole of word.
Encloses(seg, word) == seg.start <= word.start /\ word.end <= seg.end

\* Every segment that shares time with the word is removed: the export has
\* nothing of the word.
WholeCut(word) ==
    \A i \in 1..Len(segments) :
        Overlaps(segments[i], word) => ~segments[i].keep

\* C22: a word is drawn as removed only if all of its time lies in removed
\* segments, so a word that also reaches into a kept segment is drawn as
\* kept; a word inside one segment is drawn as removed exactly when that
\* segment is removed (kept before the segment is toggled, removed after).
C22_WordRemovedOnlyIfEnclosed ==
    TranscriptShown =>
        \A w \in 1..Len(Transcript) :
            /\ isWordRemoved(Transcript[w].start, Transcript[w].end)
                  => WholeCut(Transcript[w])
            /\ \A i \in 1..Len(segments) :
                  Encloses(segments[i], Transcript[w]) =>
                      (isWordRemoved(Transcript[w].start, Transcript[w].end)
                          <=> ~segments[i].keep)

\* A word shares time with a removed segment that does not hold all of it,
\* and is drawn as kept.
C22_Witness ==
    /\ TranscriptShown
    /\ \E w \in 1..Len(Transcript), i \in 1..Len(segments) :
          /\ ~segments[i].keep
          /\ Overlaps(segments[i], Transcript[w])
          /\ ~Encloses(segments[i], Transcript[w])
          /\ ~isWordRemoved(Transcript[w].start, Transcript[w].end)

\* C23: in every Editing state a word whose time is removed altogether (every
\* segment that shares time with it has keep = false) is drawn as removed,
\* also when the word reaches over the boundary of two removed segments.
C23_DisplayFollowsStore ==
    TranscriptShown =>
        \A w \in 1..Len(Transcript) :
            WholeCut(Transcript[w])
                => isWordRemoved(Transcript[w].start, Transcript[w].end)


\* C24: a step that hands a time to seekTo leaves currentTime at that time,
\* clamped to [0, duration], in the same step.
C24_SeekStoresTime ==
    [][last'.op \in {"handleTimelineClick", "onSeek"} =>
          currentTime' = Max(0, Min(last'.b, totalDuration))]_vars


\* C25: every time handed to seekTo, by a click anywhere on the timeline or
\* by a tap on a segment list item, lies within [0, duration], and so does
\* the stored currentTime while the editor is shown.
C25_SeekWithinDuration ==
    /\ [](EditorShown(screen, projectData) =>
             currentTime \in 0..totalDuration)
    /\ [][last'.op \in {"handleTimelineClick", "onSeek"} =>
             last'.b \in 0..totalDuration]_vars

\* A click on the timeline past the end of the video asked for the duration.
C25_Witness ==
    /\ last.op = "handleTimelineClick"
    /\ last.a > totalDuration
    /\ last.b = totalDuration
    /\ currentTime \in 0..totalDuration


\* The editor is up (Editing), or the processing screen is up for an export
\* or its cool-down (Exporting).
ProjectActive ==
    \/ screen = "editor"
    \/ /\ screen = "processing"
       /\ (Requests("persist") \cup Requests("export") # {} \/ timers > 0)

\* C26: while Editing or Exporting (cool-down included) a project id and
\* project data are both held, they stay the same for as long as data is
\* held, the data is the result of the analysis requested for that id, every
\* persist or export request names that id, and when the analysis result
\* arrives the store's keep values are those of the result.
C26_OneProjectHeld ==
    /\ [](ProjectActive =>
             /\ projectId # NoProject
             /\ projectData # None
             /\ \A r \in Requests("persist") \cup Requests("export") :
                   r.pid = projectId)
    /\ [][/\ last'.op = "analyzeResolved" =>
              /\ \E r \in Requests("analyze") :
                    r.pid = projectId' /\ outstanding' = Settle(r)
              /\ screen = "processing" /\ screen' = "editor"
              /\ Keeps(segments') = Keeps(projectData'[1].segments)
              /\ Len(segments') = Len(projectData'[1].segments)
          /\ projectData # None /\ projectData' # None =>
              projectId' = projectId /\ projectData' = projectData]_vars

\* The second upload of a session is in its export cool-down, with its own
\* project id and a result that has a removed segment.
C26_Witness ==
    /\ screen = "processing"
    /\ timers > 0
    /\ projectId = MaxUploads
    /\ projectId \in opened
    /\ \E i \in 1..Len(projectData[1].segments) :
          ~projectData[1].segments[i].keep


\* C27: dismissing the error banner clears the error message and leaves the
\* screen, the held project, the pending files, the segment store, the
\* editor's and the transcript's state and every request in flight and timer
\* as they were.
C27_DismissOnlyClears ==
    [][last'.op = "dismissError" =>
          /\ error # NoError
          /\ error' = NoError
          /\ UNCHANGED <<screen, projectId, projectData, uploadVars,
                         editorVars, selectionVars, envVars>>]_vars

\* An error was dismissed in the editor while a delete request of an earlier
\* project was still in flight.
C27_Witness ==
    /\ last.op = "dismissError"
    /\ EditorShown(screen, projectData)
    /\ error = NoError
    /\ Requests("delete") # {}


\* C28: every file of the pending list is a video, and so is every file of
\* an upload request.
C28_OnlyVideos ==
    /\ \A i \in 1..Len(files) : IsVideo(files[i])
    /\ \A r \in Requests("upload") :
          Len(r.files) > 0 /\ \A i \in 1..Len(r.files) : IsVideo(r.files[i])

\* Videos and other files were added together, and only the videos are in
\* the pending list.
C28_Witness ==
    /\ last.op = "handleFiles"
    /\ last.b > 0
    /\ last.b < last.a
    /\ Len(files) = last.b


\* C29: while the processing screen is shown the error message is empty, and
\* a submit that starts an upload, an export and a reset each leave the
\* error message empty.
C29_NoErrorWhileProcessing ==
    /\ [](screen = "processing" => error = NoError)
    /\ [][/\ last'.op \in {"handleExport", "handleReset"} => error' = NoError
          /\ last'.op = "handleSubmit" /\ screen' = "processing" =>
                error' = NoError]_vars

\* An export was started while the message of a failed export was showing.
C29_Witness ==
    /\ last.op = "handleExport"
    /\ last.a = 1
    /\ screen = "processing"
    /\ error = NoError


\* The operations of the segment store: toggle(i) for an index in or next
\* to the list, toggleRange(a, b) for any two times.
ToggleOps ==
    [kind : {"toggle"}, a : 0..(MaxSegs + 1), b : {0}]
        \cup [kind : {"toggleRange"}, a : 0..MaxTime, b : 0..MaxTime]

ApplyOp(segs, o) ==
    IF o.kind = "toggle" THEN ToggleAt(segs, o.a)
    ELSE ToggleRange(segs, o.a, o.b)

\* The segments whose keep value o changes in segs.
Flipped(segs, o) ==
    { i \in 1..Len(segs) : ApplyOp(segs, o)[i].keep # segs[i].keep }

\* C30: in every state of the segment store, any two operations among
\* toggle(i) and toggleRange(a, b) give the same list in either order, and
\* the segments an operation flips are the same in the store as in the
\* analysis result, so that the store is the analysis result with every
\* segment flipped that was flipped an odd number of times.
C30_TogglesCommute ==
    \A o1, o2 \in ToggleOps :
        /\ ApplyOp(ApplyOp(segments, o1), o2) =
                ApplyOp(ApplyOp(segments, o2), o1)
        /\ Flipped(segments, o1) = Flipped(projectData[1].segments, o1)

\* One segment of several was toggled and then the range of the whole video:
\* every segment but that one differs from the analysis result.
C30_Witness ==
    /\ last.op = "toggleWordRange"
    /\ last.a = 0
    /\ last.b = totalDuration
    /\ Len(segments) >= 2
    /\ Cardinality(Edited) = Len(segments) - 1


\* C31: in every state the selecting flag is set exactly when the anchor is
\* set and exactly when the focus is set, a selection exists only while the
\* transcript is shown and names words of it, and the segment store changes
\* under the transcript, the header's reset button aside, only by a
\* toggleRange issued from a state with an active selection, which it ends.
C31_SelectionConsistent ==
    /\ [](/\ isSelecting <=> selectionStart # NoWord
          /\ isSelecting <=> selectionEnd # NoWord
          /\ isSelecting =>
                /\ TranscriptShown
                /\ selectionStart \in 1..Len(Transcript)
                /\ selectionEnd \in 1..Len(Transcript))
    /\ [][/\ last'.op = "toggleWordRange" => isSelecting /\ ~isSelecting'
          /\ (/\ TranscriptShown /\ TranscriptShown'
              /\ segments' # segments
              /\ last'.op # "resetEdits") =>
                isSelecting /\ last'.op = "toggleWordRange"]_vars

\* A long press started a selection and the finger has moved the focus to
\* another word.
C31_Witness ==
    /\ last.op = "handleTouchMove"
    /\ pointer = "touch"
    /\ isSelecting
    /\ selectionStart # NoWord
    /\ selectionEnd # NoWord
    /\ selectionEnd # selectionStart

====
